---- MODULE Spec2Model ----
(***************************************************************************)
(* FastReverseProxy.ServeHTTP (src/proxy/fastreverseproxy.go) as a state   *)
(* machine: one inbound request is taken through header normalisation,     *)
(* protocol check, registry lookup, upgrade classification, the            *)
(* route-service gateway, the retry loop and the streaming relay.          *)
(*                                                                         *)
(* External collaborators (registry, iterator, signer/validator, backend)  *)
(* are modelled by their contract: each call returns a nondeterministic    *)
(* result drawn from a small set.  The AccessLogRecord is assumed to be    *)
(* present on the context (lines 85-89), as the middleware chain sets it.  *)
(***************************************************************************)
EXTENDS Integers, Sequences, FiniteSets, TLC

VARIABLES
    pc,            \* position of the request goroutine inside ServeHTTP
    proto,         \* <<ProtoMajor, ProtoMinor>> of the inbound request
    inHdr,         \* headers as received (never modified; for reference)
    hdr,           \* req.Header == backendReq.Header (same object, line 102)
    urlHost,       \* backendReq.URL.Host
    pool,          \* result of registry.Lookup
    backend,       \* local "backend" (line 166)
    rsArgs,        \* routeServiceArgs (line 174)
    validated,     \* ValidateSignature returned nil for this request
    retry,         \* loop counter (line 216)
    endpoint,      \* local "endpoint" (line 214)
    err,           \* local "err" (line 215)
    calls,         \* hc.Do calls issued so far, in order
    cnt,           \* counters of collaborator calls
    responder,     \* failure-responder / tunnel methods called, in order
    respErr,       \* error handed to the failure responder
    body,          \* chunks of the backend body still to be read
    trailers,      \* backendResp.Trailer is non-empty
    sinkFlusher,   \* rw implements writeFlusher
    rw,            \* events on the response sink, in order
    mu,            \* holder of maxLatencyWriter.mu
    fl,            \* position of the flushLoop goroutine
    copyErr,       \* io.CopyBuffer returned an error
    ticks          \* timer ticks consumed by the flush loop

vars == <<pc, proto, inHdr, hdr, urlHost, pool, backend, rsArgs, validated,
          retry, endpoint, err, calls, cnt, responder, respErr, body,
          trailers, sinkFlusher, rw, mu, fl, copyErr, ticks>>

----------------------------------------------------------------------------
(* Bounds of the model *)

MaxChunks == 1      \* body chunks a backend response may carry
MaxTicks == 1       \* timer ticks delivered while one body is relayed

----------------------------------------------------------------------------
(* Program constants and values *)

maxRetries == 3

\* a nil pool or endpoint pointer
Nil == [nil |-> TRUE]
NoErr == <<>>

\* error texts, as sequences of characters
NoEndpointsAvailable == <<"N","o"," ","e","n","d","p","o","i","n","t","s">>
GetDial == <<"G","e","t"," ","d","i","a","l">>
Eof == <<"E","O","F">>
Diag == <<"d","i","a","g">>
BadSig == <<"b","a","d"," ","s","i","g">>
SignFail == <<"s","i","g","n">>
HttpErrors == {GetDial, Eof, Diag}

E1 == [addr |-> "a1", id |-> "i1"]
E2 == [addr |-> "a2", id |-> "i2"]
E3 == [addr |-> "a3", id |-> ""]
Endpoints == {E1, E2, E3}
EndpointAddrs == {e.addr : e \in Endpoints}

RsUrl == "rs"
ReqHost == "host"

UpgradeValues == {"", "websocket", "WebSocket", "tcp"}

\* a pool as the registry returns it
Pools == [rsUrl : {"", RsUrl}, endpoints : {{}, {E1}, Endpoints}]

Headers == [Upgrade : UpgradeValues, Connection : {"", "Upgrade"},
            Sig : {"", "sigIn", "sigOther"}, Meta : {"", "metaIn"}, Fwd : {"", "fwdIn"},
            InstanceId : {""}]

Protos == {<<1, 0>>, <<1, 1>>, <<1, 2>>, <<2, 0>>}

PlainHdr == [Upgrade |-> "", Connection |-> "", Sig |-> "", Meta |-> "",
             Fwd |-> "", InstanceId |-> ""]

\* the inbound requests of the model: any protocol with plain headers, and
\* HTTP/1.1 with an upgrade (sent with Connection: Upgrade) or with any
\* combination of the three route-service headers; "sigIn" is a signature
\* made for the route service RsUrl, "sigOther" one made for another
Requests ==
    {r \in [proto : Protos, hdr : Headers] :
        /\ (r.hdr.Connection = "Upgrade") <=> (r.hdr.Upgrade # "")
        /\ \/ r.hdr = PlainHdr
           \/ r.proto = <<1, 1>> /\ r.hdr.Meta = "" /\ r.hdr.Fwd = ""
                                  /\ r.hdr.Sig # "sigOther"
           \/ r.proto = <<1, 1>> /\ r.hdr.Upgrade = "" /\ r.hdr.Sig # "sigOther"
           \/ r.proto = <<1, 1>> /\ r.hdr = [PlainHdr EXCEPT !.Sig = "sigOther"]}

NoArgs == [URLString |-> "", Signature |-> "", Metadata |-> "", ForwardedURL |-> ""]

\* what routeServiceConfig.Request returns on success
Envelope(url) ==
    [URLString |-> url, Signature |-> "sigNew", Metadata |-> "metaNew",
     ForwardedURL |-> "fwdNew"]

ZeroCnt == [acquire |-> 0, release |-> 0, lookup |-> 0, advance |-> 0,
            afterNext |-> 0, pre |-> 0, post |-> 0, validate |-> 0,
            sign |-> 0, next |-> 0, relay |-> 0, status |-> 0, copyLog |-> 0]

----------------------------------------------------------------------------
(* Pure helpers *)

\* strings.Contains
Contains(s, sub) ==
    \E i \in 1..(Len(s) - Len(sub) + 1) : SubSeq(s, i, i + Len(sub) - 1) = sub

\* strings.HasPrefix
HasPrefix(s, sub) == Len(s) >= Len(sub) /\ SubSeq(s, 1, Len(sub)) = sub

Dial == <<"d","i","a","l">>

PrefixRetryableError(e) == HasPrefix(e, Dial)

LooseRetryableError(e) == Contains(e, <<"d","i","a">>)

retryableError(e) == Contains(e, Dial)

WrongErrSelectEndpoint(e) ==
    IF e = Nil THEN [ep |-> Nil, err |-> Eof] ELSE [ep |-> e, err |-> NoErr]

\* selectEndpoint applied to what iter.Next() returned
selectEndpoint(e) ==
    IF e = Nil THEN [ep |-> Nil, err |-> NoEndpointsAvailable]
               ELSE [ep |-> e, err |-> NoErr]

MajorOnlyProtocolSupported(p) == p[1] = 1

isProtocolSupported(p) == p[1] = 1 /\ (p[2] = 0 \/ p[2] = 1)

\* strings.ToLower on the header values of the model
ToLower(s) == IF s = "WebSocket" THEN "websocket" ELSE s

upgradeHeader(h) == h.Upgrade

isWebSocketUpgrade(h) == ToLower(upgradeHeader(h)) = "websocket"

isTcpUpgrade(h) == upgradeHeader(h) = "tcp"

\* the route service a signature header was made for
SigContext(sig) == IF sig = "sigIn" THEN RsUrl ELSE "other"

hasBeenToRouteService(rsUrl, sig) ==
    sig # "" /\ rsUrl # "" /\ SigContext(sig) = rsUrl

\* for _, h := range HopHeaders { backendReq.Header.Del(h) }
DelHopHeaders(h) == [h EXCEPT !.Connection = "", !.Upgrade = ""]

\* the three Header.Del calls of the validated branch
BadStripRouteServiceHeaders(h) == [h EXCEPT !.Sig = "", !.Fwd = ""]

StripRouteServiceHeaders(h) == [h EXCEPT !.Sig = "", !.Meta = "", !.Fwd = ""]

\* the three Header.Set calls of the first-encounter branch
SetRouteServiceHeaders(h, a) ==
    [h EXCEPT !.Sig = a.Signature, !.Meta = a.Metadata, !.Fwd = a.ForwardedURL]

IdOnlyInstanceIdValue(e) == e.id

\* setupRequest: the instance-id header
InstanceIdValue(e) == IF e.id = "" THEN e.addr ELSE e.id

\* setupProxyRequest(req, backendReq, false): sees only the request, so the
\* host it leaves in URL.Host is the current one or the request's Host
SetupProxyRequestHosts(cur) == {cur, ReqHost}

\* if backend { backendReq.URL.Host = endpoint.CanonicalAddr() }
BadAttemptHost(b, e, h) == h

AlwaysEndpointHost(b, e, h) == e.addr

InvertedAttemptHost(b, e, h) == IF b THEN h ELSE e.addr

AttemptHost(b, e, h) == IF b THEN e.addr ELSE h

\* for retry := 0; retry < maxRetries; retry++
BadLoopGuard(r) == r <= maxRetries

LoopGuard(r) == r < maxRetries

SwappedHeaderEvents(t, f) ==
    <<"WriteHeader">> \o (IF t THEN <<"TrailerHeader">> ELSE <<>>)
                      \o (IF t /\ f THEN <<"Flush">> ELSE <<>>)

\* lines 285-302: what the sink sees for a response with (t) or without
\* trailers, on a sink that is (f) or is not an http.Flusher
HeaderEvents(t, f) ==
    (IF t THEN <<"TrailerHeader">> ELSE <<>>)
        \o <<"WriteHeader">>
        \o (IF t /\ f THEN <<"Flush">> ELSE <<>>)

\* the sink calls of lines 300 and 373 recorded so far
FlushCount(events) == Cardinality({i \in 1..Len(events) : events[i] = "Flush"})

HasRsHeaders(h) == h.Sig # "" \/ h.Meta # "" \/ h.Fwd # ""

----------------------------------------------------------------------------
(* State machine *)

\* a request of the set R arrives at ServeHTTP
Arrival(R) ==
    /\ pc = "start"
    /\ \E r \in R : proto = r.proto /\ inHdr = r.hdr
    /\ hdr = inHdr
    /\ urlHost = ""
    /\ pool = Nil
    /\ backend = TRUE
    /\ rsArgs = NoArgs
    /\ validated = FALSE
    /\ retry = 0
    /\ endpoint = Nil
    /\ err = NoErr
    /\ calls = <<>>
    /\ cnt = ZeroCnt
    /\ responder = <<>>
    /\ respErr = NoErr
    /\ body = 0
    /\ trailers = FALSE
    /\ sinkFlusher = FALSE
    /\ rw = <<>>
    /\ mu = "free"
    /\ fl = "none"
    /\ copyErr = FALSE
    /\ ticks = 0

Init == Arrival(Requests)

LeakHandler(c) == c

\* defer handler.ReleaseHandler(requestHandler), run when ServeHTTP returns
ReleaseHandler(c) == [c EXCEPT !.release = @ + 1]

FallThrough(method, e) ==
    /\ responder' = Append(responder, method)
    /\ respErr' = e
    /\ pc' = "next"

DropCause(method, e) ==
    /\ responder' = Append(responder, method)
    /\ respErr' = NoErr
    /\ pc' = "done"

\* a failure responder or tunnel hand-off is called and ServeHTTP returns
Return(method, e) ==
    /\ responder' = Append(responder, method)
    /\ respErr' = e
    /\ pc' = "done"

\* lines 91-124
Begin ==
    /\ pc = "start"
    /\ hdr' = DelHopHeaders(hdr)
    /\ IF ~isProtocolSupported(proto)
       THEN /\ Return("UnsupportedProtocol", NoErr)
            /\ cnt' = ReleaseHandler([cnt EXCEPT !.acquire = @ + 1])
       ELSE /\ pc' = "lookup"
            /\ cnt' = [cnt EXCEPT !.acquire = @ + 1]
            /\ UNCHANGED <<responder, respErr>>
    /\ UNCHANGED <<proto, inHdr, urlHost, pool, backend, rsArgs, validated,
                   retry, endpoint, err, calls, body, trailers, sinkFlusher,
                   rw, mu, fl, copyErr, ticks>>

\* lines 136-142
Lookup ==
    /\ pc = "lookup"
    /\ \E p \in Pools \cup {Nil} :
         /\ pool' = p
         /\ IF p = Nil
            THEN /\ Return("MissingRoute", NoErr)
                 /\ cnt' = ReleaseHandler([cnt EXCEPT !.lookup = @ + 1])
            ELSE /\ pc' = "classify"
                 /\ cnt' = [cnt EXCEPT !.lookup = @ + 1]
                 /\ UNCHANGED <<responder, respErr>>
    /\ UNCHANGED <<proto, inHdr, hdr, urlHost, backend, rsArgs, validated,
                   retry, endpoint, err, calls, body, trailers, sinkFlusher,
                   rw, mu, fl, copyErr, ticks>>

\* the single endpoint pick of a tunnel handler: iter.Next() with afterNext
TunnelPick(c) ==
    ReleaseHandler([c EXCEPT !.advance = @ + 1,
                             !.afterNext = IF pool.endpoints # {} THEN @ + 1 ELSE @])

\* lines 144-164
Classify ==
    /\ pc = "classify"
    /\ IF isTcpUpgrade(hdr)
       THEN /\ Return("TcpRequest", NoErr)
            /\ cnt' = TunnelPick(cnt)
       ELSE IF isWebSocketUpgrade(hdr)
       THEN /\ Return("WebSocketRequest", NoErr)
            /\ cnt' = TunnelPick(cnt)
       ELSE /\ pc' = "gateway"
            /\ UNCHANGED <<responder, respErr, cnt>>
    /\ UNCHANGED <<proto, inHdr, hdr, urlHost, pool, backend, rsArgs, validated,
                   retry, endpoint, err, calls, body, trailers, sinkFlusher,
                   rw, mu, fl, copyErr, ticks>>

\* lines 174-211: the request of a pool with a route-service URL, when
\* route services are enabled
RouteService ==
    IF hasBeenToRouteService(pool.rsUrl, hdr.Sig)
    THEN /\ rsArgs' = [rsArgs EXCEPT !.URLString = pool.rsUrl]
         /\ backend' = TRUE
         /\ \/ \* ValidateSignature returns an error
               /\ Return("BadSignature", BadSig)
               /\ cnt' = ReleaseHandler([cnt EXCEPT !.validate = @ + 1])
               /\ UNCHANGED <<hdr, validated>>
            \/ \* ValidateSignature returns nil
               /\ validated' = TRUE
               /\ hdr' = StripRouteServiceHeaders(hdr)
               /\ cnt' = [cnt EXCEPT !.validate = @ + 1]
               /\ pc' = "select"
               /\ UNCHANGED <<responder, respErr>>
    ELSE /\ backend' = FALSE
         /\ UNCHANGED validated
         /\ \/ \* routeServiceConfig.Request returns an error
               /\ Return("RouteServiceFailure", SignFail)
               /\ cnt' = ReleaseHandler([cnt EXCEPT !.sign = @ + 1])
               /\ UNCHANGED <<hdr, rsArgs>>
            \/ \* routeServiceConfig.Request returns the signed envelope
               /\ rsArgs' = Envelope(pool.rsUrl)
               /\ hdr' = SetRouteServiceHeaders(hdr, Envelope(pool.rsUrl))
               /\ cnt' = [cnt EXCEPT !.sign = @ + 1]
               /\ pc' = "select"
               /\ UNCHANGED <<responder, respErr>>

\* lines 166-211
Gateway ==
    /\ pc = "gateway"
    /\ IF pool.rsUrl = ""
       THEN /\ pc' = "select"
            /\ backend' = TRUE
            /\ UNCHANGED <<hdr, rsArgs, validated, responder, respErr, cnt>>
       ELSE \/ \* RouteServiceEnabled() is false
               /\ Return("UnsupportedRouteService", NoErr)
               /\ cnt' = ReleaseHandler(cnt)
               /\ backend' = TRUE
               /\ UNCHANGED <<hdr, rsArgs, validated>>
            \/ \* RouteServiceEnabled() is true
               RouteService
    /\ UNCHANGED <<proto, inHdr, urlHost, pool, retry, endpoint, err, calls,
                   body, trailers, sinkFlusher, rw, mu, fl, copyErr, ticks>>

\* lines 216-221: the loop condition, selectEndpoint and the afterNext hook
Select ==
    /\ pc = "select"
    /\ IF ~LoopGuard(retry)
       THEN /\ pc' = "after"
            /\ UNCHANGED <<endpoint, err, cnt>>
       ELSE \E e \in pool.endpoints \cup {Nil} :
              /\ endpoint' = selectEndpoint(e).ep
              /\ err' = selectEndpoint(e).err
              /\ cnt' = [cnt EXCEPT !.advance = @ + 1,
                                    !.afterNext = IF e # Nil THEN @ + 1 ELSE @]
              /\ pc' = IF selectEndpoint(e).err # NoErr THEN "after" ELSE "prepare"
    /\ UNCHANGED <<proto, inHdr, hdr, urlHost, pool, backend, rsArgs, validated,
                   retry, calls, responder, respErr, body, trailers,
                   sinkFlusher, rw, mu, fl, copyErr, ticks>>

\* lines 222-240: setupRequest, PreRequest, setupProxyRequest, URL.Host
Prepare ==
    /\ pc = "prepare"
    /\ hdr' = [hdr EXCEPT !.InstanceId = InstanceIdValue(endpoint)]
    /\ cnt' = [cnt EXCEPT !.pre = @ + 1]
    /\ \E h \in SetupProxyRequestHosts(urlHost) :
         urlHost' = AttemptHost(backend, endpoint, h)
    /\ pc' = "call"
    /\ UNCHANGED <<proto, inHdr, pool, backend, rsArgs, validated, retry,
                   endpoint, err, calls, responder, respErr, body, trailers,
                   sinkFlusher, rw, mu, fl, copyErr, ticks>>

\* lines 241-255: hc.Do, PostRequest and the three ways out of an iteration
Call ==
    /\ pc = "call"
    /\ cnt' = [cnt EXCEPT !.post = @ + 1]
    /\ \E res \in {NoErr} \cup HttpErrors :
         /\ calls' = Append(calls, [ep |-> endpoint, host |-> urlHost,
                                    hdr |-> hdr, res |-> res])
         /\ err' = res
         /\ IF res = NoErr
            THEN /\ \E t \in BOOLEAN, n \in 0..MaxChunks :
                      trailers' = t /\ body' = n
                 /\ pc' = "after"
                 /\ UNCHANGED retry
            ELSE IF ~retryableError(res)
            THEN /\ pc' = "after"
                 /\ UNCHANGED <<retry, trailers, body>>
            ELSE /\ retry' = retry + 1
                 /\ pc' = "select"
                 /\ UNCHANGED <<trailers, body>>
    /\ UNCHANGED <<proto, inHdr, hdr, urlHost, pool, backend, rsArgs, validated,
                   endpoint, responder, respErr, sinkFlusher, rw, mu, fl,
                   copyErr, ticks>>

\* lines 257-302: the failure return, or status, headers and the forced flush
After ==
    /\ pc = "after"
    /\ IF err # NoErr
       THEN /\ Return("BadGateway", err)
            /\ rw' = Append(rw, "ExceededMaxRetries")
            /\ cnt' = ReleaseHandler(cnt)
            /\ UNCHANGED sinkFlusher
       ELSE /\ \E f \in BOOLEAN :
                 /\ sinkFlusher' = f
                 /\ rw' = rw \o HeaderEvents(trailers, f)
            /\ cnt' = [cnt EXCEPT !.status = @ + 1]
            /\ pc' = "copy"
            /\ UNCHANGED <<responder, respErr>>
    /\ UNCHANGED <<proto, inHdr, hdr, urlHost, pool, backend, rsArgs, validated,
                   retry, endpoint, err, calls, body, trailers, mu, fl,
                   copyErr, ticks>>

\* lines 324-334: copyResponse starts the flush loop for a flushing sink
StartCopy ==
    /\ pc = "copy"
    /\ fl' = IF sinkFlusher THEN "select" ELSE fl
    /\ cnt' = [cnt EXCEPT !.relay = @ + 1]
    /\ pc' = "read"
    /\ UNCHANGED <<proto, inHdr, hdr, urlHost, pool, backend, rsArgs, validated,
                   retry, endpoint, err, calls, responder, respErr, body,
                   trailers, sinkFlusher, rw, mu, copyErr, ticks>>

\* line 337: io.CopyBuffer reads the next chunk, reaches EOF or fails
CopyRead ==
    /\ pc = "read"
    /\ IF body = 0
       THEN pc' = "stop" /\ UNCHANGED copyErr
       ELSE \/ pc' = "wlock" /\ UNCHANGED copyErr
            \/ pc' = "stop" /\ copyErr' = TRUE
    /\ UNCHANGED <<proto, inHdr, hdr, urlHost, pool, backend, rsArgs, validated,
                   retry, endpoint, err, calls, cnt, responder, respErr, body,
                   trailers, sinkFlusher, rw, mu, fl, ticks>>

\* line 356: m.mu.Lock() (a sink that cannot flush is written directly)
WriteLock ==
    /\ pc = "wlock"
    /\ IF sinkFlusher
       THEN mu = "free" /\ mu' = "copier"
       ELSE UNCHANGED mu
    /\ pc' = "write"
    /\ UNCHANGED <<proto, inHdr, hdr, urlHost, pool, backend, rsArgs, validated,
                   retry, endpoint, err, calls, cnt, responder, respErr, body,
                   trailers, sinkFlusher, rw, fl, copyErr, ticks>>

LeakyWriteChunk ==
    /\ pc = "write"
    /\ rw' = Append(rw, "Write")
    /\ \/ body' = body - 1 /\ pc' = "read" /\ UNCHANGED copyErr
       \/ copyErr' = TRUE /\ pc' = "stop" /\ UNCHANGED body
    /\ UNCHANGED <<proto, inHdr, hdr, urlHost, pool, backend, rsArgs, validated,
                   retry, endpoint, err, calls, cnt, responder, respErr,
                   trailers, sinkFlusher, mu, fl, ticks>>

\* lines 357-358: dst.Write and the deferred Unlock
WriteChunk ==
    /\ pc = "write"
    /\ rw' = Append(rw, "Write")
    /\ mu' = IF sinkFlusher THEN "free" ELSE mu
    /\ \/ body' = body - 1 /\ pc' = "read" /\ UNCHANGED copyErr
       \/ copyErr' = TRUE /\ pc' = "stop" /\ UNCHANGED body
    /\ UNCHANGED <<proto, inHdr, hdr, urlHost, pool, backend, rsArgs, validated,
                   retry, endpoint, err, calls, cnt, responder, respErr,
                   trailers, sinkFlusher, fl, ticks>>

FireAndForgetStop ==
    /\ pc = "stop"
    /\ pc' = "trailers"
    /\ UNCHANGED <<proto, inHdr, hdr, urlHost, pool, backend, rsArgs, validated,
                   retry, endpoint, err, calls, cnt, responder, respErr, body,
                   trailers, sinkFlusher, rw, mu, fl, copyErr, ticks>>

\* lines 338-339, 332, 379 and 366-370: the error of io.CopyBuffer is tested
\* and dropped (the if block is empty, cnt.copyLog stays as it is); the
\* deferred stop() meets the flush loop's receive on done
Stop ==
    /\ pc = "stop"
    /\ IF sinkFlusher
       THEN fl = "select" /\ fl' = "exited"
       ELSE UNCHANGED fl
    /\ pc' = "trailers"
    /\ UNCHANGED <<proto, inHdr, hdr, urlHost, pool, backend, rsArgs, validated,
                   retry, endpoint, err, calls, cnt, responder, respErr, body,
                   trailers, sinkFlusher, rw, mu, copyErr, ticks>>

\* line 371: the select takes a tick
Tick ==
    /\ fl = "select"
    /\ ticks < MaxTicks
    /\ ticks' = ticks + 1
    /\ fl' = "lock"
    /\ UNCHANGED <<pc, proto, inHdr, hdr, urlHost, pool, backend, rsArgs,
                   validated, retry, endpoint, err, calls, cnt, responder,
                   respErr, body, trailers, sinkFlusher, rw, mu, copyErr>>

UnguardedFlushLock ==
    /\ fl = "lock"
    /\ mu' = "flusher"
    /\ fl' = "flush"
    /\ UNCHANGED <<pc, proto, inHdr, hdr, urlHost, pool, backend, rsArgs,
                   validated, retry, endpoint, err, calls, cnt, responder,
                   respErr, body, trailers, sinkFlusher, rw, copyErr, ticks>>

\* line 372
FlushLock ==
    /\ fl = "lock"
    /\ mu = "free"
    /\ mu' = "flusher"
    /\ fl' = "flush"
    /\ UNCHANGED <<pc, proto, inHdr, hdr, urlHost, pool, backend, rsArgs,
                   validated, retry, endpoint, err, calls, cnt, responder,
                   respErr, body, trailers, sinkFlusher, rw, copyErr, ticks>>

\* lines 373-374
Flush ==
    /\ fl = "flush"
    /\ rw' = Append(rw, "Flush")
    /\ mu' = "free"
    /\ fl' = "select"
    /\ UNCHANGED <<pc, proto, inHdr, hdr, urlHost, pool, backend, rsArgs,
                   validated, retry, endpoint, err, calls, cnt, responder,
                   respErr, body, trailers, sinkFlusher, copyErr, ticks>>

\* lines 305-311: the trailer values follow the body
Trailers ==
    /\ pc = "trailers"
    /\ rw' = IF trailers THEN Append(rw, "TrailerValues") ELSE rw
    /\ pc' = "next"
    /\ UNCHANGED <<proto, inHdr, hdr, urlHost, pool, backend, rsArgs, validated,
                   retry, endpoint, err, calls, cnt, responder, respErr, body,
                   trailers, sinkFlusher, mu, fl, copyErr, ticks>>

\* line 313 and the deferred ReleaseHandler
CallNext ==
    /\ pc = "next"
    /\ cnt' = ReleaseHandler([cnt EXCEPT !.next = @ + 1])
    /\ pc' = "done"
    /\ UNCHANGED <<proto, inHdr, hdr, urlHost, pool, backend, rsArgs, validated,
                   retry, endpoint, err, calls, responder, respErr, body,
                   trailers, sinkFlusher, rw, mu, fl, copyErr, ticks>>

Next ==
    \/ Begin
    \/ Lookup
    \/ Classify
    \/ Gateway
    \/ Select
    \/ Prepare
    \/ Call
    \/ After
    \/ StartCopy
    \/ CopyRead
    \/ WriteLock
    \/ WriteChunk
    \/ Stop
    \/ Tick
    \/ FlushLock
    \/ Flush
    \/ Trailers
    \/ CallNext

Spec == Init /\ [][Next]_vars

----------------------------------------------------------------------------
(* The relay under a ticker that never stops *)

\* line 371: in a run of any length the 50ms ticker keeps delivering; the
\* tick count saturates at MaxTicks
LiveTick ==
    /\ fl = "select"
    /\ ticks' = IF ticks < MaxTicks THEN ticks + 1 ELSE ticks
    /\ fl' = "lock"
    /\ UNCHANGED <<pc, proto, inHdr, hdr, urlHost, pool, backend, rsArgs,
                   validated, retry, endpoint, err, calls, cnt, responder,
                   respErr, body, trailers, sinkFlusher, rw, mu, copyErr>>

\* lines 373-374; the record of sink events keeps the first MaxTicks + 1
\* flushes
LiveFlush ==
    /\ fl = "flush"
    /\ rw' = IF FlushCount(rw) <= MaxTicks THEN Append(rw, "Flush") ELSE rw
    /\ mu' = "free"
    /\ fl' = "select"
    /\ UNCHANGED <<pc, proto, inHdr, hdr, urlHost, pool, backend, rsArgs,
                   validated, retry, endpoint, err, calls, cnt, responder,
                   respErr, body, trailers, sinkFlusher, copyErr, ticks>>

\* the relay does not depend on how the request was routed: one request of
\* each outcome of the protocol check and of the route-service gateway
LiveRequests ==
    {r \in Requests :
        /\ r.proto \in {<<1, 1>>, <<1, 2>>}
        /\ r.hdr \in {PlainHdr, [PlainHdr EXCEPT !.Sig = "sigIn"],
                      [PlainHdr EXCEPT !.Sig = "sigOther"]}}

LiveInit == Arrival(LiveRequests)

LiveNext ==
    \/ Begin
    \/ Lookup
    \/ Classify
    \/ Gateway
    \/ Select
    \/ Prepare
    \/ Call
    \/ After
    \/ StartCopy
    \/ CopyRead
    \/ WriteLock
    \/ WriteChunk
    \/ Stop
    \/ LiveTick
    \/ FlushLock
    \/ LiveFlush
    \/ Trailers
    \/ CallNext

\* Scheduling: the flush goroutine is runnable whenever it is not blocked,
\* and sync.Mutex hands a free lock to a waiter (weak fairness of FlushLock
\* and LiveFlush).  The send of stop() can complete only while the loop is
\* at its select; a select with several ready cases picks one uniformly at
\* random, so a sender that is ready at every visit of the select is
\* eventually picked (strong fairness of Stop).
LiveSpec ==
    /\ LiveInit
    /\ [][LiveNext]_vars
    /\ WF_vars(FlushLock)
    /\ WF_vars(LiveFlush)
    /\ SF_vars(Stop)

----------------------------------------------------------------------------
(* Properties *)

Done == pc = "done"

FailureKinds == {"UnsupportedProtocol", "MissingRoute", "UnsupportedRouteService",
                 "BadSignature", "RouteServiceFailure", "BadGateway"}

\* the attempt about to be issued, or an attempt already issued, goes to a
\* pool endpoint's address
CallsToEndpoints == {i \in 1..Len(calls) : calls[i].host \in EndpointAddrs}

RsPool == pool # Nil /\ pool.rsUrl # ""

\* C1: in every execution at most 3 backend HTTP attempts are issued and the
\* iterator is advanced at most 3 times
C1_AtMostThreeAttempts ==
    Len(calls) <= 3 /\ cnt.advance <= 3 /\ cnt.pre <= 3

C1_Witness ==
    Done /\ Len(calls) = 3 /\ cnt.advance = 3 /\ responder = <<"BadGateway">>

\* the run so far has followed the scenario "the iterator yields E1, E2, E3;
\* the attempt to E1 and the attempt to E2 fail with a dial error, the attempt
\* to E3 succeeds"
ScenarioEps == <<E1, E2, E3>>
ScenarioRes == <<GetDial, GetDial, NoErr>>
FollowsScenario ==
    /\ cnt.advance <= 3
    /\ Len(calls) <= 3
    /\ \A i \in 1..Len(calls) :
         calls[i].ep = ScenarioEps[i] /\ calls[i].res = ScenarioRes[i]
    /\ cnt.advance > Len(calls) => endpoint = ScenarioEps[cnt.advance]
    /\ cnt.advance >= 1

\* C2: E1 (dial error), E2 (dial error), E3 (success): exactly 3 attempts, the
\* response of E3 is relayed and no failure responder is called, the
\* post-attempt hook and the after-selection hook fire exactly 3 times
C2_TwoDialErrorsThenSuccess ==
    (Done /\ FollowsScenario) =>
        /\ Len(calls) = 3
        /\ calls[3].ep = E3 /\ calls[3].res = NoErr
        /\ responder = <<>>
        /\ cnt.relay = 1 /\ cnt.next = 1
        /\ rw # <<>> /\ "ExceededMaxRetries" \notin {rw[i] : i \in 1..Len(rw)}
        /\ cnt.post = 3
        /\ cnt.afterNext = 3

C2_Witness ==
    Done /\ FollowsScenario /\ Len(calls) = 3 /\ cnt.next = 1

\* the iterator was exhausted on its first advance
ExhaustedOnFirstAdvance == cnt.advance = 1 /\ endpoint = Nil

C4_OnlyDialErrorsRetried ==
    /\ \A i \in 1..Len(calls) :
         (i < Len(calls) \/ cnt.advance > Len(calls)) =>
            /\ calls[i].res # NoErr
            /\ Contains(calls[i].res, <<"d","i","a","l">>)
    /\ (Len(calls) >= 1 /\ calls[1].res # NoErr
            /\ ~Contains(calls[1].res, <<"d","i","a","l">>)) =>
         /\ Len(calls) = 1
         /\ cnt.advance = 1
         /\ pc \in {"after", "done"}
         /\ Done => responder = <<"BadGateway">> /\ respErr = calls[1].res

C4_Witness ==
    Done /\ Len(calls) = 1 /\ calls[1].res = Diag /\ pool.endpoints = Endpoints

\* C5: a supported request with Upgrade: websocket (any case) and Connection:
\* Upgrade on a pool with an endpoint is handed to the WebSocket tunnel handler:
\* no retry loop, no route-service gateway, no relay, one endpoint selection
C5_WebSocketHandOff ==
    (/\ Done
     /\ ToLower(inHdr.Upgrade) = "websocket"
     /\ inHdr.Connection = "Upgrade"
     /\ isProtocolSupported(proto)
     /\ pool # Nil
     /\ pool.endpoints # {}) =>
        /\ responder = <<"WebSocketRequest">>
        /\ calls = <<>>
        /\ cnt.sign = 0 /\ cnt.validate = 0
        /\ cnt.relay = 0
        /\ cnt.advance = 1

\* an attempt of a first-encounter request whose signing succeeded
FirstEncounterAttempt ==
    pc = "call" /\ RsPool /\ inHdr.Sig = "" /\ cnt.sign = 1

\* C6: the attempt of a first-encounter request on a route-service pool
\* carries the three headers of the signed envelope and goes to the
\* route-service URL, not to a pool endpoint
C6_DetourToRouteService ==
    FirstEncounterAttempt =>
        /\ hdr.Sig = rsArgs.Signature /\ hdr.Sig # ""
        /\ hdr.Meta = rsArgs.Metadata /\ hdr.Meta # ""
        /\ hdr.Fwd = rsArgs.ForwardedURL /\ hdr.Fwd # ""
        /\ urlHost = pool.rsUrl
        /\ urlHost \notin EndpointAddrs

\* C7: on a route-service pool, once the signature of a prior-visit request
\* has validated, the outbound request carries none of the three
\* route-service headers and every attempt goes to the selected endpoint's
\* canonical address
C7_ValidatedGoesToBackend ==
    (RsPool /\ validated) =>
        /\ ~HasRsHeaders(hdr)
        /\ pc = "call" => urlHost = endpoint.addr
        /\ \A i \in 1..Len(calls) :
             calls[i].host = calls[i].ep.addr /\ ~HasRsHeaders(calls[i].hdr)

C7_Witness ==
    /\ RsPool /\ validated /\ Done
    /\ inHdr.Sig # "" /\ inHdr.Meta # "" /\ inHdr.Fwd # ""
    /\ Len(calls) = 2 /\ calls[1].ep # calls[2].ep /\ cnt.next = 1

\* C8: on a route-service pool no attempt goes to a pool endpoint's address
\* unless ValidateSignature succeeded; a failed validation ends in
\* BadSignature with the validator's error and no attempt; a request without
\* signature never reaches a pool endpoint
C8_BackendOnlyAfterValidation ==
    RsPool =>
        /\ (CallsToEndpoints # {} \/ (pc = "call" /\ urlHost \in EndpointAddrs))
              => validated /\ inHdr.Sig # ""
        /\ (cnt.validate = 1 /\ ~validated) =>
              /\ Done
              /\ responder = <<"BadSignature">>
              /\ respErr = BadSig
              /\ calls = <<>> /\ cnt.advance = 0
        /\ cnt.validate <= 1

C8_Witness ==
    RsPool /\ Done /\ validated /\ Len(calls) = 3 /\ CallsToEndpoints = {1, 2, 3}

C8_BadSignatureReached ==
    RsPool /\ Done /\ cnt.validate = 1 /\ ~validated

C8_UnsignedReached ==
    RsPool /\ Done /\ inHdr.Sig = "" /\ Len(calls) = 3

\* C9 as stated: whatever the inbound headers and the pool, an attempt that
\* goes to a pool endpoint's address carries none of the three route-service
\* headers
C9_BackendNeverSeesRsHeaders ==
    \A i \in CallsToEndpoints : ~HasRsHeaders(calls[i].hdr)

\* C9 amended: on a pool that declares a route-service URL an attempt that
\* goes to a pool endpoint's address carries none of the three route-service
\* headers; on a pool without one the gateway is bypassed and the attempt
\* carries the three headers exactly as the request brought them
C9_RsHeadersStrippedOnRsPools ==
    \A i \in CallsToEndpoints :
        IF pool.rsUrl # ""
        THEN ~HasRsHeaders(calls[i].hdr)
        ELSE /\ calls[i].hdr.Sig = inHdr.Sig
             /\ calls[i].hdr.Meta = inHdr.Meta
             /\ calls[i].hdr.Fwd = inHdr.Fwd

C9_Witness ==
    /\ Done /\ CallsToEndpoints # {}
    /\ pool.rsUrl # "" /\ inHdr.Meta # "" /\ inHdr.Fwd # ""

\* C10: a request ends in exactly one terminal outcome: the backend response
\* is relayed and the continuation is invoked once, after body and trailers
\* were copied, or exactly one failure responder is called and the
\* continuation is never invoked
C10_OneTerminalOutcome ==
    /\ cnt.next <= 1
    /\ Len(responder) <= 1
    /\ responder # <<>> => Done /\ cnt.next = 0 /\ cnt.relay = 0
    /\ cnt.next = 1 =>
         /\ Done
         /\ responder = <<>>
         /\ cnt.relay = 1
         /\ fl \in {"none", "exited"}
         /\ Len(calls) >= 1 /\ calls[Len(calls)].res = NoErr
         /\ trailers => rw[Len(rw)] = "TrailerValues"
    /\ Done =>
         \/ cnt.next = 1
         \/ Len(responder) = 1 /\ responder[1] \in FailureKinds

C10_Witness ==
    /\ Done /\ cnt.next = 1 /\ trailers /\ sinkFlusher /\ inHdr.Upgrade = ""
    /\ Len(rw) >= 4

\* C11: a backend attempt or iterator advance occurs only for HTTP/1.0 or
\* HTTP/1.1 and a pool found by the registry; another protocol ends in
\* UnsupportedProtocol without lookup, advance or attempt; a supported request
\* without pool ends in MissingRoute without advance or attempt; the registry
\* is looked up at most once
C11_ProtocolAndRouteGate ==
    /\ cnt.lookup <= 1
    /\ (proto \notin {<<1, 0>>, <<1, 1>>} /\ pc # "start") =>
         /\ Done
         /\ responder = <<"UnsupportedProtocol">>
         /\ cnt.lookup = 0 /\ cnt.advance = 0 /\ calls = <<>>
    /\ (cnt.lookup = 1 /\ pool = Nil) =>
         /\ Done
         /\ responder = <<"MissingRoute">>
         /\ cnt.advance = 0 /\ calls = <<>>
    /\ (calls # <<>> \/ cnt.advance > 0) =>
         /\ proto \in {<<1, 0>>, <<1, 1>>}
         /\ cnt.lookup = 1 /\ pool # Nil

C11_Witness ==
    Done /\ proto = <<1, 2>> /\ responder = <<"UnsupportedProtocol">>

C11_MissingRouteReached ==
    Done /\ proto = <<1, 0>> /\ responder = <<"MissingRoute">>

\* C12: the handler context acquired at the start of ServeHTTP is released
\* exactly once on every exit path, at the return; once it is released no
\* handler method is called and nothing else happens for the request
C12_HandlerReleasedOnce ==
    /\ [](/\ cnt.acquire <= 1 /\ cnt.release <= 1
          /\ pc # "start" => cnt.acquire = 1
          /\ Done <=> cnt.release = 1)
    /\ [][cnt.release = 1 => (responder' = responder /\ cnt' = cnt /\ rw' = rw)]_vars

C12_Witness ==
    /\ Done /\ cnt.acquire = 1 /\ cnt.release = 1
    /\ responder = <<"RouteServiceFailure">>

C12_SuccessReleaseReached ==
    Done /\ cnt.release = 1 /\ cnt.next = 1

\* copyResponse has returned: the deferred stop() has returned
AfterStop == cnt.relay = 1 /\ pc \in {"trailers", "next", "done"}

WriteCount(events) == Cardinality({i \in 1..Len(events) : events[i] = "Write"})

\* C13: once stop has returned the flush loop has left its loop, holds no
\* lock, and no step flushes the sink any more, whatever the interleaving of
\* ticks, writes and the stop signal was
C13_NoFlushAfterStop ==
    /\ []((AfterStop /\ sinkFlusher) => (fl = "exited" /\ mu = "free"))
    /\ [][AfterStop => FlushCount(rw') = FlushCount(rw)]_vars

C13_Witness ==
    /\ Done /\ sinkFlusher /\ fl = "exited" /\ ticks >= 1
    /\ WriteCount(rw) >= 1 /\ rw[Len(rw)] = "Flush"

\* C14: the flush loop is never inside dst.Flush while the copier is inside
\* dst.Write; each of them holds the mutex for the whole call
C14_WriteFlushExclusive ==
    /\ ~(fl = "flush" /\ pc = "write")
    /\ fl = "flush" => mu = "flusher"
    /\ (pc = "write" /\ sinkFlusher) => mu = "copier"

C14_Witness ==
    sinkFlusher /\ pc = "write" /\ fl = "lock" /\ mu = "copier"

C14_CopierWaitsReached ==
    sinkFlusher /\ pc = "wlock" /\ fl = "flush" /\ mu = "flusher"

\* the backend response was accepted and its status written to the client
Relayed == cnt.status = 1

BodyCopyFinished == cnt.relay = 1 /\ pc \in {"trailers", "next", "done"}

Positions(events, e) == {i \in 1..Len(events) : events[i] = e}

\* the claim as written: with trailers the sink is always flushed right
\* after the status, before any body byte
C15_ForcedFlushAlways ==
    (Relayed /\ trailers) =>
        /\ Len(rw) >= 3
        /\ rw[1] = "TrailerHeader" /\ rw[2] = "WriteHeader" /\ rw[3] = "Flush"
        /\ \A i \in Positions(rw, "Write") : i > 3

\* C15: with trailers the sink sees the Trailer header, then the status,
\* then - when the sink is an http.Flusher - one forced flush, all before
\* any body byte; the trailer values come once, last, after the body copy
\* has finished.  Without trailers there is no Trailer header, no trailer
\* value and no flush other than those of the ticker.
C15_TrailerEventOrder ==
    Relayed =>
        /\ trailers =>
             /\ Len(rw) >= 2
             /\ rw[1] = "TrailerHeader" /\ rw[2] = "WriteHeader"
             /\ Positions(rw, "TrailerHeader") = {1}
             /\ sinkFlusher => (Len(rw) >= 3 /\ rw[3] = "Flush")
             /\ \A i \in Positions(rw, "Write") :
                    i > (IF sinkFlusher THEN 3 ELSE 2)
             /\ FlushCount(rw) <= ticks + (IF sinkFlusher THEN 1 ELSE 0)
             /\ Positions(rw, "TrailerValues") =
                    (IF pc \in {"next", "done"} THEN {Len(rw)} ELSE {})
             /\ Positions(rw, "TrailerValues") # {} => BodyCopyFinished
        /\ ~trailers =>
             /\ rw[1] = "WriteHeader"
             /\ Positions(rw, "TrailerHeader") = {}
             /\ Positions(rw, "TrailerValues") = {}
             /\ FlushCount(rw) <= ticks
             /\ ~sinkFlusher => FlushCount(rw) = 0
        /\ Positions(rw, "WriteHeader") = {IF trailers THEN 2 ELSE 1}

C15_Witness ==
    /\ Done /\ Relayed /\ trailers /\ sinkFlusher
    /\ rw[3] = "Flush" /\ WriteCount(rw) >= 1 /\ rw[Len(rw)] = "TrailerValues"

C15_NoFlusherReached ==
    /\ Done /\ Relayed /\ trailers /\ ~sinkFlusher
    /\ rw = <<"TrailerHeader", "WriteHeader", "Write", "TrailerValues">>

C15_NoTrailersReached ==
    Done /\ Relayed /\ ~trailers /\ sinkFlusher /\ WriteCount(rw) >= 1

\* C16: a body copy that fails after the status was written leaves the
\* client response alone (no failure responder, status written once, the
\* request still reaches next) and the error is reported to the log
C16_CopyErrorLogged ==
    (AfterStop /\ copyErr) =>
        /\ responder = <<>> /\ respErr = NoErr
        /\ cnt.status = 1
        /\ Positions(rw, "WriteHeader") # {}
        /\ cnt.copyLog = 1

\* the part of C16 the code does keep
C16_CopyErrorKeepsResponse ==
    (AfterStop /\ copyErr) =>
        /\ responder = <<>> /\ respErr = NoErr
        /\ cnt.status = 1
        /\ Positions(rw, "WriteHeader") # {}
        /\ Done => cnt.next = 1

C16_CopyErrorReached == Done /\ copyErr /\ cnt.next = 1 /\ cnt.copyLog = 0

\* C17: the flush loop exists only after the status was written and only
\* inside the one copyResponse call of the request, and from the moment the
\* body copy has finished stop() eventually returns with the flush loop
\* terminated, although ticks never cease
C17_StopReturns ==
    /\ [](/\ cnt.relay <= 1
          /\ fl # "none" =>
               /\ sinkFlusher /\ cnt.relay = 1 /\ Relayed
               /\ Positions(rw, "WriteHeader") # {})
    /\ (pc = "stop") ~> (AfterStop /\ (sinkFlusher => fl = "exited"))

\* stop() is called while the flush loop holds the mutex, after an earlier
\* tick and a failed copy
C17_Witness ==
    pc = "stop" /\ fl = "flush" /\ mu = "flusher" /\ copyErr /\ FlushCount(rw) >= 1

C17_TicksKeepArriving ==
    pc = "stop" /\ fl = "lock" /\ ticks = MaxTicks /\ FlushCount(rw) > MaxTicks

\* the retry loop has been left with an error
LoopFailed == err # NoErr /\ pc \in {"after", "done"}

\* the three ways the loop of lines 216-255 ends with an error, told from
\* the record of attempts and iterator advances
ThreeDialFailures ==
    /\ Len(calls) = 3 /\ cnt.advance = 3
    /\ \A i \in 1..3 : Contains(calls[i].res, Dial)

NonRetryableFailure ==
    /\ calls # <<>> /\ cnt.advance = Len(calls)
    /\ calls[Len(calls)].res # NoErr
    /\ ~Contains(calls[Len(calls)].res, Dial)
    /\ \A i \in 1..(Len(calls) - 1) : Contains(calls[i].res, Dial)

IteratorExhausted ==
    /\ cnt.advance = Len(calls) + 1 /\ Len(calls) < 3
    /\ \A i \in 1..Len(calls) : Contains(calls[i].res, Dial)

LastStepError ==
    IF cnt.advance > Len(calls) THEN NoEndpointsAvailable
    ELSE calls[Len(calls)].res

\* C18: a retry loop that ends with an error ends in one of the three ways;
\* the bad-gateway responder is then called exactly once with the error of
\* the last step, the literal body is the only thing written to the client,
\* no backend status reaches the access log, nothing is relayed and next is
\* not called; the bad-gateway responder is called in no other case
C18_LoopFailureIsBadGateway ==
    /\ LoopFailed =>
         /\ ThreeDialFailures \/ NonRetryableFailure \/ IteratorExhausted
         /\ err = LastStepError
         /\ cnt.status = 0 /\ cnt.relay = 0 /\ cnt.next = 0 /\ fl = "none"
         /\ pc = "after" => (responder = <<>> /\ rw = <<>>)
         /\ Done =>
              /\ responder = <<"BadGateway">>
              /\ respErr = LastStepError
              /\ rw = <<"ExceededMaxRetries">>
    /\ (\E i \in 1..Len(responder) : responder[i] = "BadGateway") =>
         (LoopFailed /\ Done)
    /\ Positions(rw, "ExceededMaxRetries") # {} => (LoopFailed /\ Done)

C18_Witness ==
    /\ Done /\ ThreeDialFailures /\ responder = <<"BadGateway">>
    /\ respErr = GetDial /\ rw = <<"ExceededMaxRetries">>

C18_NonRetryableReached ==
    /\ Done /\ NonRetryableFailure /\ Len(calls) = 2 /\ respErr = Diag
    /\ responder = <<"BadGateway">>

C18_ExhaustedReached ==
    /\ Done /\ IteratorExhausted /\ Len(calls) = 2
    /\ respErr = NoEndpointsAvailable /\ responder = <<"BadGateway">>

\* C19: every HTTP call has its pre-attempt hook before it and its
\* post-attempt hook after it, whatever its result, so outside an attempt
\* the three counts are equal and at most 3; the instance-id header each
\* call carries is the id of the endpoint selected for that attempt, or its
\* address when the id is empty
C19_HooksBracketAttempts ==
    /\ Len(calls) <= 3
    /\ cnt.post = Len(calls)
    /\ cnt.pre = Len(calls) + (IF pc = "call" THEN 1 ELSE 0)
    /\ pc \notin {"prepare", "call"} => (cnt.pre = cnt.post /\ cnt.pre <= 3)
    /\ \A i \in 1..Len(calls) :
         /\ calls[i].ep \in Endpoints
         /\ calls[i].hdr.InstanceId =
              (IF calls[i].ep.id = "" THEN calls[i].ep.addr ELSE calls[i].ep.id)
    /\ pc = "call" =>
         hdr.InstanceId = (IF endpoint.id = "" THEN endpoint.addr ELSE endpoint.id)

\* a failed attempt on an endpoint with an id, then an attempt on the
\* endpoint without one
C19_Witness ==
    /\ Done /\ Len(calls) = 3 /\ cnt.pre = 3 /\ cnt.post = 3
    /\ calls[1].ep = E1 /\ calls[1].res = GetDial
    /\ calls[2].ep = E3 /\ calls[2].hdr.InstanceId = E3.addr
    /\ calls[3].ep = E2 /\ calls[3].res = NoErr

\* the first-encounter path: the pool has a route-service URL, the request
\* came without a signature for it and the envelope was signed
Detour ==
    /\ RsPool /\ ~backend /\ cnt.sign = 1 /\ cnt.validate = 0
    /\ pc \in {"select", "prepare", "call", "after", "copy", "read", "wlock",
               "write", "stop", "trailers", "next", "done"}
    /\ responder # <<"RouteServiceFailure">>

InAttempt == IF pc \in {"prepare", "call"} THEN 1 ELSE 0

\* C20: on the detour path every attempt still advances the pool iterator
\* and fires the after-selection, pre-attempt and post-attempt hooks for a
\* pool endpoint whose address is not where the call goes; with no endpoint
\* in the pool the request ends in the retry-loop failure and no HTTP call
\* is made at all
C20_DetourStillWalksPool ==
    Detour =>
        /\ cnt.afterNext = Len(calls) + InAttempt
        /\ cnt.advance >= cnt.afterNext /\ cnt.advance <= cnt.afterNext + 1
        /\ cnt.pre = Len(calls) + (IF pc = "call" THEN 1 ELSE 0)
        /\ cnt.post = Len(calls)
        /\ \A i \in 1..Len(calls) :
             /\ calls[i].ep \in pool.endpoints
             /\ calls[i].host # calls[i].ep.addr
             /\ calls[i].host \notin EndpointAddrs
        /\ (pool.endpoints = {} /\ pc # "select") =>
             /\ calls = <<>> /\ cnt.advance = 1 /\ cnt.afterNext = 0
             /\ cnt.pre = 0
             /\ err = NoEndpointsAvailable
             /\ pc \in {"after", "done"}
             /\ Done => (responder = <<"BadGateway">> /\ rw = <<"ExceededMaxRetries">>)

C20_Witness ==
    /\ Detour /\ Done /\ Len(calls) = 3 /\ cnt.advance = 3 /\ cnt.afterNext = 3
    /\ cnt.pre = 3 /\ cnt.post = 3 /\ calls[1].ep # calls[2].ep

C20_NoEndpointReached ==
    /\ Detour /\ Done /\ pool.endpoints = {} /\ calls = <<>>
    /\ responder = <<"BadGateway">> /\ respErr = NoEndpointsAvailable

====
